---- MODULE Spec2Model ----
(***************************************************************************)
(* Model of the automigrate listener of plugins/migratecmd/automigrate.go: *)
(* afterCollectionChange, refreshCachedCollections, getCachedCollections.  *)
(* Each handler invocation runs in the goroutine of the request that saved *)
(* the model, so the steps of several invocations interleave; nothing in   *)
(* the file takes a lock.                                                  *)
(***************************************************************************)
EXTENDS Integers, Sequences, FiniteSets, TLC

\* ---------------------------------------------------------------- bounds
MaxTime == 1          \* last value of the unix clock (seconds)

\* ------------------------------------------------------------- universes
\* the request goroutines; each saves one model and runs the handler once
Procs == {"p1", "p2"}
Ids == {"a", "b"}                     \* collection identifiers
Names == {"posts", "users"}           \* collection names (unique in the store)
Fields == {"title", "headline"}       \* field lists a definition can carry

\* a nil *models.Collection
Nil == [id |-> "nil", name |-> "", fields |-> ""]

Defs == [id : Ids, name : Names, fields : Fields]

\* e.Model.TableName() of a collection model
CollectionsTable == "_collections"

TemplateLangJS == "js"
\* p.options.TemplateLang, as examples/base/main.go registers the plugin
TemplateLang == TemplateLangJS

VARIABLES
    store,        \* the schema store: id -> definition or Nil
    cacheHas,     \* p.app.Cache().Has(collectionsCacheKey)
    cache,        \* the mapping stored under collectionsCacheKey
    dirExists,    \* the migrations directory exists
    files,        \* the migrations directory: file name -> content
    now,          \* time.Now().Unix()
    pc,           \* position of each handler invocation
    ev,           \* the ModelEvent: table name and model id
    old,          \* local old
    new,          \* local new
    template,     \* local template
    fileDest,     \* local fileDest
    collections,  \* local mapped of refreshCachedCollections
    result,       \* what the handler returned
    trace,        \* the steps the invocation executed, in order
    evNo,         \* arrival number of the invocation's event
    pre,          \* definition of the event's collection before the mutation
    post,         \* definition of the event's collection after the mutation
    nEvents,      \* events delivered so far
    written,      \* successful os.WriteFile calls, in order
    lastNew,      \* per id: new of the last event returned with nil error
    seen,         \* lastNew of the event's id when the handler read old
    prior,        \* the invocations that had returned when the event arrived
    options       \* p.options: the plugin's configuration

vars == <<store, cacheHas, cache, dirExists, files, now, pc, ev, old, new,
          template, fileDest, collections, result, trace, evNo, pre, post,
          nEvents, written, lastNew, seen, prior, options>>

shared == <<store, cacheHas, cache, dirExists, files, now, nEvents, written, lastNew>>

NoFile == [ts |-> 0 - 1, action |-> "", name |-> "", ext |-> ""]
NoTemplate == [lang |-> "", old |-> Nil, new |-> Nil]
NoMap == [i \in Ids |-> Nil]
NoEvent == [id |-> "none", name |-> "", fields |-> ""]

\* the collections the store holds when the first request arrives: none,
\* one, or two (names are unique; which id carries which name is immaterial)
InitialStores ==
    {s \in [Ids -> Defs \cup {Nil}] :
        /\ s["a"] \in {Nil, [id |-> "a", name |-> "posts", fields |-> "title"]}
        /\ s["b"] \in {Nil, [id |-> "b", name |-> "users", fields |-> "title"]}
        /\ s["b"] # Nil => s["a"] # Nil}

Init ==
    /\ store \in InitialStores
    \* the cache is empty after construction; it holds the store's snapshot
    \* once an earlier handler has populated it lazily (automigrate.go:98-102)
    \* and then returned an error before writing anything
    /\ cacheHas \in BOOLEAN
    /\ cache = IF cacheHas THEN [i \in Ids |-> store[i]] ELSE NoMap
    /\ dirExists = FALSE
    /\ files = [f \in {} |-> NoTemplate]
    /\ now = 0
    /\ pc = [p \in Procs |-> "idle"]
    /\ ev = [p \in Procs |-> [table |-> "", id |-> ""]]
    /\ old = [p \in Procs |-> Nil]
    /\ new = [p \in Procs |-> Nil]
    /\ template = [p \in Procs |-> NoTemplate]
    /\ fileDest = [p \in Procs |-> NoFile]
    /\ collections = [p \in Procs |-> NoMap]
    /\ result = [p \in Procs |-> ""]
    /\ trace = [p \in Procs |-> <<>>]
    /\ evNo = [p \in Procs |-> 0]
    /\ pre = [p \in Procs |-> Nil]
    /\ post = [p \in Procs |-> Nil]
    /\ nEvents = 0
    /\ written = <<>>
    /\ lastNew = [i \in Ids |-> NoEvent]
    /\ seen = [p \in Procs |-> NoEvent]
    /\ prior = [p \in Procs |-> {}]
    /\ options = [TemplateLang |-> TemplateLang]

\* ------------------------------------------------------- pure functions

\* a table test that lets every saved model through
IsCollection_Other(e) == e.table # ""

\* automigrate.go:21  e.Model.TableName() != "_collections"
IsCollection(e) == e.table = CollectionsTable

\* CollectionQuery().All(&collections): every definition of the store
AllCollections(s) == {s[i] : i \in Ids} \ {Nil}

\* the slice All(&collections) leaves behind: every definition, or nothing
\* when the query failed
QueryAll(s, allOk) == IF allOk THEN AllCollections(s) ELSE {}

\* a refresh that reports no error at all
RefreshError_Ignored(daoOk, allOk) == "nil"

\* automigrate.go:78-85  refreshCachedCollections returns before Cache().Set
\* when the store is not initialized or when the get-all query failed
RefreshError(daoOk, allOk) ==
    IF ~daoOk THEN "no_dao" ELSE IF ~allOk THEN "query" ELSE "nil"

\* a mapping that files a definition under another collection's identifier
Mapped_Misfiled(cs) ==
    [i \in Ids |-> IF \E c \in cs : c.id # i
                   THEN CHOOSE c \in cs : c.id # i
                   ELSE Nil]

\* a mapping that keeps none of the definitions
Mapped_Empty(cs) == [i \in Ids |-> Nil]

\* automigrate.go:87-90  mapped[c.Id] = c
Mapped(cs) ==
    [i \in Ids |-> IF \E c \in cs : c.id = i
                   THEN CHOOSE c \in cs : c.id = i
                   ELSE Nil]

\* a map read: the zero value (nil) for a missing key
Lookup(m, i) == IF i \in DOMAIN m THEN m[i] ELSE Nil

\* FindCollectionByNameOrId(id): the row, nil with sql.ErrNoRows when there
\* is no such row, or nil with another error when the query fails
FindCollectionByNameOrId(s, i) ==
    { [row |-> Lookup(s, i),
       err |-> IF Lookup(s, i) = Nil THEN "ErrNoRows" ELSE "nil"],
      [row |-> Nil, err |-> "db"] }

\* a selection that takes the JS renderer whatever the dialect
Renderer_AlwaysJS(lang) == "js"

\* automigrate.go:40-44  the renderer the configured dialect selects
Renderer(lang) == IF lang = TemplateLangJS THEN "js" ELSE "go"

\* jsDiffTemplate / goDiffTemplate: the script text rendered from the diff
\* of (old, new); the text is determined by the dialect and the two
\* definitions
DiffTemplate(lang, n, o) == [lang |-> Renderer(lang), old |-> o, new |-> n]

\* a lookup whose error is never returned
ReturnsLookupError_Never(err) == FALSE

\* automigrate.go:34  err != nil && !errors.Is(err, sql.ErrNoRows)
ReturnsLookupError(err) == err # "nil" /\ err # "ErrNoRows"

\* automigrate.go:49-57  old.Name is read through a nil pointer when both
\* new and old are nil
ActionPanics(n, o) == n = Nil /\ o = Nil

\* a label that names an updated collection by the name it has now
Action_NewName(n, o) ==
    IF n = Nil THEN [verb |-> "deleted", name |-> o.name]
    ELSE [verb |-> IF o = Nil THEN "created" ELSE "updated", name |-> n.name]

\* a label that ignores which side of the diff is absent
Action_AlwaysUpdated(n, o) == [verb |-> "updated", name |-> o.name]

\* automigrate.go:49-57  the action label: verb and collection name
Action(n, o) ==
    IF n = Nil THEN [verb |-> "deleted", name |-> o.name]
    ELSE IF o = Nil THEN [verb |-> "created", name |-> n.name]
    ELSE [verb |-> "updated", name |-> o.name]

\* automigrate.go:59-60  "%d_%s.%s" of appliedTime, action, TemplateLang
FileDest(t, a, lang) == [ts |-> t, action |-> a.verb, name |-> a.name, ext |-> lang]

\* os.WriteFile: creates the file or truncates the existing one
WriteFile(fs, dest, data) ==
    [f \in DOMAIN fs \cup {dest} |-> IF f = dest THEN data ELSE fs[f]]

\* ------------------------------------------------ the hosting application

\* the goroutine p has not served its request yet; p1 serves the first
\* request (which goroutine serves a request is immaterial)
Free(p) == pc[p] = "idle" /\ (nEvents = 0 => p = "p1")

NameUnused(n) == \A i \in Ids : store[i] = Nil \/ store[i].name # n

\* a model was saved or deleted and its after-hook calls the handler
Begin(p, table, i, before, after) ==
    /\ nEvents' = nEvents + 1
    /\ pc' = [pc EXCEPT ![p] = "check"]
    /\ ev' = [ev EXCEPT ![p] = [table |-> table, id |-> i]]
    /\ evNo' = [evNo EXCEPT ![p] = nEvents + 1]
    /\ pre' = [pre EXCEPT ![p] = before]
    /\ post' = [post EXCEPT ![p] = after]
    /\ old' = [old EXCEPT ![p] = Nil]
    /\ new' = [new EXCEPT ![p] = Nil]
    /\ template' = [template EXCEPT ![p] = NoTemplate]
    /\ fileDest' = [fileDest EXCEPT ![p] = NoFile]
    /\ collections' = [collections EXCEPT ![p] = NoMap]
    /\ result' = [result EXCEPT ![p] = ""]
    /\ trace' = [trace EXCEPT ![p] = <<>>]
    /\ prior' = [prior EXCEPT ![p] = {q \in Procs : pc[q] = "done"}]

\* a new collection gets an identifier no collection has carried before
FreshId(i) == store[i] = Nil /\ \A q \in Procs : pc[q] = "idle" \/ ev[q].id # i

CreateCollection(p, i, n) ==
    /\ Free(p)
    /\ FreshId(i) /\ NameUnused(n)
    /\ store' = [store EXCEPT ![i] = [id |-> i, name |-> n, fields |-> "title"]]
    /\ Begin(p, CollectionsTable, i, Nil, store'[i])
    /\ UNCHANGED <<cacheHas, cache, dirExists, files, now, written, lastNew, seen, options>>

\* the definitions an update of d can leave in the store: d itself (a save
\* that changes nothing), d with other fields, or d renamed
Updates(d) ==
    {d}
    \cup {[d EXCEPT !.fields = f] : f \in Fields}
    \cup {[d EXCEPT !.name = n] : n \in {m \in Names : NameUnused(m)}}

UpdateCollection(p, i, d) ==
    /\ Free(p)
    /\ store[i] # Nil /\ d \in Updates(store[i])
    /\ store' = [store EXCEPT ![i] = d]
    /\ Begin(p, CollectionsTable, i, store[i], d)
    /\ UNCHANGED <<cacheHas, cache, dirExists, files, now, written, lastNew, seen, options>>

DeleteCollection(p, i) ==
    /\ Free(p)
    /\ store[i] # Nil
    /\ store' = [store EXCEPT ![i] = Nil]
    /\ Begin(p, CollectionsTable, i, store[i], Nil)
    /\ UNCHANGED <<cacheHas, cache, dirExists, files, now, written, lastNew, seen, options>>

\* a model of another table was saved: the same hook fires
SaveOtherModel(p) ==
    /\ Free(p)
    /\ Begin(p, "_params", "r1", Nil, Nil)
    /\ UNCHANGED <<store, cacheHas, cache, dirExists, files, now, written, lastNew, seen, options>>

\* ------------------------------------------------------------ the handler

Id(p) == ev[p].id

Step(p, to, tag) ==
    /\ pc' = [pc EXCEPT ![p] = to]
    /\ trace' = [trace EXCEPT ![p] = Append(@, tag)]

\* the handler returns r
Return(p, r, tag) ==
    /\ pc' = [pc EXCEPT ![p] = "done"]
    /\ result' = [result EXCEPT ![p] = r]
    /\ trace' = [trace EXCEPT ![p] = Append(@, tag)]

\* automigrate.go:21-23
CheckTable(p) ==
    /\ pc[p] = "check"
    /\ IF IsCollection(ev[p])
       THEN Step(p, "has", "collection") /\ UNCHANGED result
       ELSE Return(p, "ok", "ignored")
    /\ UNCHANGED <<shared, ev, old, new, template, fileDest, collections,
                   evNo, pre, post, seen, prior, options>>

\* automigrate.go:98  getCachedCollections: Cache().Has
CacheHas(p) ==
    /\ pc[p] = "has"
    /\ Step(p, IF cacheHas THEN "get" ELSE "lazyAll", "has")
    /\ UNCHANGED <<shared, ev, old, new, template, fileDest, collections,
                   result, evNo, pre, post, seen, prior, options>>

\* automigrate.go:99 -> 82-90  the get-all query of the lazy refresh; its
\* error is returned by getCachedCollections and by the handler (27-29)
LazyAll(p) ==
    /\ pc[p] = "lazyAll"
    /\ \E daoOk \in BOOLEAN, allOk \in BOOLEAN :
          LET tag == IF daoOk /\ allOk THEN "all" ELSE "all_err"
          IN  IF RefreshError(daoOk, allOk) = "nil"
              THEN /\ collections' = [collections EXCEPT
                                        ![p] = Mapped(QueryAll(store, allOk))]
                   /\ Step(p, "lazySet", tag)
                   /\ UNCHANGED result
              ELSE /\ Return(p, "store_err", tag)
                   /\ UNCHANGED collections
    /\ UNCHANGED <<shared, ev, old, new, template, fileDest, evNo, pre, post, seen, prior, options>>

\* a lazy refresh after which an empty mapping does not count as populated
LazySet_EmptyUnpopulated(p) ==
    /\ pc[p] = "lazySet"
    /\ cache' = collections[p]
    /\ cacheHas' = (collections[p] # NoMap)
    /\ collections' = [collections EXCEPT ![p] = NoMap]
    /\ Step(p, "get", "set")
    /\ UNCHANGED <<store, dirExists, files, now, nEvents, written, lastNew,
                   ev, old, new, template, fileDest, result, evNo, pre, post, seen, prior, options>>

\* automigrate.go:92  Cache().Set of the lazy refresh
LazySet(p) ==
    /\ pc[p] = "lazySet"
    /\ cache' = collections[p]
    /\ cacheHas' = TRUE
    /\ collections' = [collections EXCEPT ![p] = NoMap]
    /\ Step(p, "get", "set")
    /\ UNCHANGED <<store, dirExists, files, now, nEvents, written, lastNew,
                   ev, old, new, template, fileDest, result, evNo, pre, post, seen, prior, options>>

\* automigrate.go:104 and 31  old := oldCollections[e.Model.GetId()]
CacheGet(p) ==
    /\ pc[p] = "get"
    /\ old' = [old EXCEPT ![p] = Lookup(cache, Id(p))]
    /\ seen' = [seen EXCEPT ![p] = IF Id(p) \in Ids THEN lastNew[Id(p)] ELSE NoEvent]
    /\ Step(p, "find", "get")
    /\ UNCHANGED <<shared, ev, new, template, fileDest, collections, result,
                   evNo, pre, post, prior, options>>

\* automigrate.go:33-36  sql.ErrNoRows leaves new nil, any other error is
\* returned
FindNew(p) ==
    /\ pc[p] = "find"
    /\ \E res \in FindCollectionByNameOrId(store, Id(p)) :
          LET tag == CASE res.err = "nil" -> "find"
                       [] res.err = "ErrNoRows" -> "find_nf"
                       [] OTHER -> "find_err"
          IN  IF ReturnsLookupError(res.err)
              THEN /\ Return(p, "store_err", tag)
                   /\ UNCHANGED new
              ELSE /\ new' = [new EXCEPT ![p] = res.row]
                   /\ Step(p, "render", tag)
                   /\ UNCHANGED result
    /\ UNCHANGED <<shared, ev, old, template, fileDest, collections, evNo,
                   pre, post, seen, prior, options>>

\* automigrate.go:38-60  the template, the action label and the file name;
\* time.Now() returns the last value read or a later one
Render(p) ==
    /\ pc[p] = "render"
    /\ \E ok \in BOOLEAN :
          IF ~ok
          THEN /\ Return(p, "render_err", "render_err")
               /\ UNCHANGED <<template, fileDest, now>>
          ELSE /\ template' = [template EXCEPT
                                 ![p] = DiffTemplate(options.TemplateLang, new[p], old[p])]
               /\ IF ActionPanics(new[p], old[p])
                  THEN /\ Return(p, "panic", "panic")
                       /\ UNCHANGED <<fileDest, now>>
                  ELSE /\ now' \in now..MaxTime
                       /\ fileDest' = [fileDest EXCEPT
                                 ![p] = FileDest(now', Action(new[p], old[p]),
                                                options.TemplateLang)]
                       /\ Step(p, "mkdir", "render")
                       /\ UNCHANGED result
    /\ UNCHANGED <<store, cacheHas, cache, dirExists, files, nEvents, written,
                   lastNew, ev, old, new, collections, evNo, pre, post, seen, prior, options>>

\* automigrate.go:63-65  os.MkdirAll
MkdirAll(p) ==
    /\ pc[p] = "mkdir"
    /\ \E ok \in BOOLEAN :
          IF ok
          THEN /\ dirExists' = TRUE
               /\ Step(p, "write", "mkdir")
               /\ UNCHANGED result
          ELSE /\ Return(p, "fs_err", "mkdir_err")
               /\ UNCHANGED dirExists
    /\ UNCHANGED <<store, cacheHas, cache, files, now, nEvents, written,
                   lastNew, ev, old, new, template, fileDest, collections,
                   evNo, pre, post, seen, prior, options>>

\* automigrate.go:67-69  os.WriteFile: it succeeds, or fails to open the
\* file, or fails after the file was created or truncated
WriteMigration(p) ==
    /\ pc[p] = "write"
    /\ \E outcome \in {"ok", "open_err", "write_err"} :
          CASE outcome = "ok" ->
                  /\ files' = WriteFile(files, fileDest[p], template[p])
                  /\ written' = Append(written, [ev |-> evNo[p], id |-> Id(p),
                                                 dest |-> fileDest[p],
                                                 data |-> template[p],
                                                 fresh |-> fileDest[p] \notin DOMAIN files])
                  /\ Step(p, "refreshAll", "write")
                  /\ UNCHANGED result
            [] outcome = "open_err" ->
                  /\ Return(p, "fs_err", "write_err")
                  /\ UNCHANGED <<files, written>>
            [] outcome = "write_err" ->
                  /\ files' = WriteFile(files, fileDest[p], NoTemplate)
                  /\ Return(p, "fs_err", "write_err")
                  /\ UNCHANGED written
    /\ UNCHANGED <<store, cacheHas, cache, dirExists, now, nEvents, lastNew,
                   ev, old, new, template, fileDest, collections, evNo, pre,
                   post, seen, prior, options>>

\* automigrate.go:71 -> 82-90  the get-all query of the final refresh; the
\* handler drops the error refreshCachedCollections returns and returns nil
RefreshAll(p) ==
    /\ pc[p] = "refreshAll"
    /\ \E daoOk \in BOOLEAN, allOk \in BOOLEAN :
          LET tag == IF daoOk /\ allOk THEN "all" ELSE "all_err"
          IN  IF RefreshError(daoOk, allOk) = "nil"
              THEN /\ collections' = [collections EXCEPT
                                        ![p] = Mapped(QueryAll(store, allOk))]
                   /\ Step(p, "refreshSet", tag)
                   /\ UNCHANGED <<result, lastNew>>
              ELSE /\ Return(p, "ok", tag)
                   /\ lastNew' = [lastNew EXCEPT ![Id(p)] = new[p]]
                   /\ UNCHANGED collections
    /\ UNCHANGED <<store, cacheHas, cache, dirExists, files, now, nEvents,
                   written, ev, old, new, template, fileDest, evNo, pre, post, seen, prior, options>>

\* a final refresh that overwrites only the event's own key of the cached
\* mapping
RefreshSet_InPlace(p) ==
    /\ pc[p] = "refreshSet"
    /\ cache' = [cache EXCEPT ![Id(p)] = collections[p][Id(p)]]
    /\ cacheHas' = TRUE
    /\ Return(p, "ok", "set")
    /\ collections' = [collections EXCEPT ![p] = NoMap]
    /\ lastNew' = [lastNew EXCEPT ![Id(p)] = new[p]]
    /\ UNCHANGED <<store, dirExists, files, now, nEvents, written, ev, old,
                   new, template, fileDest, evNo, pre, post, seen, prior, options>>

\* automigrate.go:92 and 73  Cache().Set of the final refresh, return nil
RefreshSet(p) ==
    /\ pc[p] = "refreshSet"
    /\ cache' = collections[p]
    /\ cacheHas' = TRUE
    /\ Return(p, "ok", "set")
    /\ collections' = [collections EXCEPT ![p] = NoMap]
    /\ lastNew' = [lastNew EXCEPT ![Id(p)] = new[p]]
    /\ UNCHANGED <<store, dirExists, files, now, nEvents, written, ev, old,
                   new, template, fileDest, evNo, pre, post, seen, prior, options>>

Next ==
    \/ \E p \in Procs, i \in Ids, n \in Names : CreateCollection(p, i, n)
    \/ \E p \in Procs, i \in Ids, d \in Defs : UpdateCollection(p, i, d)
    \/ \E p \in Procs, i \in Ids : DeleteCollection(p, i)
    \/ \E p \in Procs : SaveOtherModel(p)
    \/ \E p \in Procs : CheckTable(p)
    \/ \E p \in Procs : CacheHas(p)
    \/ \E p \in Procs : LazyAll(p)
    \/ \E p \in Procs : LazySet(p)
    \/ \E p \in Procs : CacheGet(p)
    \/ \E p \in Procs : FindNew(p)
    \/ \E p \in Procs : Render(p)
    \/ \E p \in Procs : MkdirAll(p)
    \/ \E p \in Procs : WriteMigration(p)
    \/ \E p \in Procs : RefreshAll(p)
    \/ \E p \in Procs : RefreshSet(p)

Spec == Init /\ [][Next]_vars

\* the values p.options.TemplateLang is given: the two dialects and a value
\* that is neither
TemplateLangs == {TemplateLangJS, "go", "ts"}

\* the plugin registered with any of these values, on a store that holds one
\* collection
InitLang ==
    /\ store = [i \in Ids |-> IF i = "a"
                              THEN [id |-> "a", name |-> "posts", fields |-> "title"]
                              ELSE Nil]
    /\ cacheHas \in BOOLEAN
    /\ cache = IF cacheHas THEN [i \in Ids |-> store[i]] ELSE NoMap
    /\ dirExists = FALSE
    /\ files = [f \in {} |-> NoTemplate]
    /\ now = 0
    /\ pc = [p \in Procs |-> "idle"]
    /\ ev = [p \in Procs |-> [table |-> "", id |-> ""]]
    /\ old = [p \in Procs |-> Nil]
    /\ new = [p \in Procs |-> Nil]
    /\ template = [p \in Procs |-> NoTemplate]
    /\ fileDest = [p \in Procs |-> NoFile]
    /\ collections = [p \in Procs |-> NoMap]
    /\ result = [p \in Procs |-> ""]
    /\ trace = [p \in Procs |-> <<>>]
    /\ evNo = [p \in Procs |-> 0]
    /\ pre = [p \in Procs |-> Nil]
    /\ post = [p \in Procs |-> Nil]
    /\ nEvents = 0
    /\ written = <<>>
    /\ lastNew = [i \in Ids |-> NoEvent]
    /\ seen = [p \in Procs |-> NoEvent]
    /\ prior = [p \in Procs |-> {}]
    /\ options \in [TemplateLang : TemplateLangs]

SpecLang == InitLang /\ [][Next]_vars

\* ------------------------------------------------------------ vocabulary

Done(p) == pc[p] = "done"

\* no handler is running: the cache is observed between change events
Quiescent == \A p \in Procs : pc[p] \in {"idle", "done"}

\* p's event is the save or delete of a collection
OnCollection(p) == pc[p] # "idle" /\ ev[p].table = "_collections"

Has(p, tag) == \E k \in 1..Len(trace[p]) : trace[p][k] = tag

Last(p) == IF trace[p] = <<>> THEN "" ELSE trace[p][Len(trace[p])]

\* the successful writes of p's invocation
WritesOf(p) == {k \in 1..Len(written) : written[k].ev = evNo[p]}

\* some step of p's invocation failed
Faulted(p) ==
    \E k \in 1..Len(trace[p]) :
        trace[p][k] \in {"all_err", "find_err", "render_err", "mkdir_err",
                        "write_err", "panic"}

\* ----------------------------------------------------------------- claims

\* C1: between change events the cache holds, for every collection id, the
\* definition the most recent processed event for that id resolved as new
\* (no entry after a delete), and the old an event reads from the cache is
\* the definition the previous event for that id diffed, never a newer one.
C1_CacheReflectsLastEvent ==
    /\ Quiescent =>
          \A i \in Ids : lastNew[i] # NoEvent => (cacheHas /\ cache[i] = lastNew[i])
    /\ \A p \in Procs :
          (OnCollection(p) /\ Has(p, "get") /\ seen[p] # NoEvent) => old[p] = seen[p]

\* the label and name of the file p's invocation chose
Labelled(p, verb, name) == fileDest[p].action = verb /\ fileDest[p].name = name

\* p's event is the creation of a collection
IsCreate(p) == OnCollection(p) /\ pre[p] = Nil /\ post[p] # Nil

\* p's event is an update that changed the definition
IsUpdate(p) == OnCollection(p) /\ pre[p] # Nil /\ post[p] # Nil /\ pre[p] # post[p]

\* C2: for the event of a newly created collection old is resolved as
\* absent and the file is labelled created_<name>, also when the cache is
\* populated lazily during that event.
C2_CreateResolvesOldAbsent ==
    \A p \in Procs :
        IsCreate(p) =>
            /\ Has(p, "get") => old[p] = Nil
            /\ fileDest[p] # NoFile => Labelled(p, "created", post[p].name)

\* C3: two updates of two different collections handled concurrently, every
\* step succeeding: two distinct files, each holding the pre-update and
\* post-update definition of its own collection, and the cache holds the
\* post-update definition of both once both handlers have returned.
C3_ConcurrentUpdatesOfTwoCollections ==
    \A p, q \in Procs :
        ( /\ p # q /\ Done(p) /\ Done(q)
          /\ IsUpdate(p) /\ IsUpdate(q) /\ Id(p) # Id(q)
          /\ ~Faulted(p) /\ ~Faulted(q) )
        => /\ fileDest[p] # fileDest[q]
           /\ Cardinality(DOMAIN files) = 2
           /\ \A r \in {p, q} :
                 /\ files[fileDest[r]].old = pre[r]
                 /\ files[fileDest[r]].new = post[r]
                 /\ cache[Id(r)] = post[r]

\* C4: two concurrent events for the same collection are serialized: each
\* diffs the consecutive pair of states its own mutation produced, the
\* files are written in arrival order, and the new of the earlier file is
\* the old of the later one.
C4_SameCollectionSerialized ==
    \A p, q \in Procs :
        ( /\ Done(p) /\ Done(q) /\ evNo[p] < evNo[q]
          /\ OnCollection(p) /\ OnCollection(q) /\ Id(p) = Id(q)
          /\ ~Faulted(p) /\ ~Faulted(q) )
        => /\ template[p].old = pre[p] /\ template[p].new = post[p]
           /\ template[q].old = pre[q] /\ template[q].new = post[q]
           /\ template[p].new = template[q].old
           /\ \A j \in WritesOf(p), k \in WritesOf(q) : j < k

\* C5: an event whose old and new are equal (an empty diff) writes no file
\* and returns success.
C5_EmptyDiffWritesNothing ==
    \A p \in Procs :
        ( /\ Done(p) /\ OnCollection(p) /\ Has(p, "find")
          /\ new[p] = old[p]
          /\ ~Has(p, "render_err") /\ ~Has(p, "mkdir_err") /\ ~Has(p, "write_err") )
        => /\ result[p] = "ok"
           /\ WritesOf(p) = {}
           /\ fileDest[p] \notin DOMAIN files

\* C6: every write targets a path that did not exist before, so no written
\* file is ever overwritten.
C6_NeverOverwrites ==
    \A k \in 1..Len(written) : written[k].fresh

\* C7: once all events have returned success, the migrations directory
\* holds exactly one file per collection event.
C7_OneFilePerEvent ==
    ( /\ Quiescent
      /\ \A p \in Procs : (Done(p) /\ OnCollection(p)) => result[p] = "ok" )
    => Cardinality(DOMAIN files)
         = Cardinality({p \in Procs : Done(p) /\ OnCollection(p)})

\* C8: the handler of a model that is no collection returns success in its
\* first step and changes nothing: no store query, no cache access, no file.
C8_NonCollectionIgnored ==
    [][ \A p \in Procs :
          ( /\ pc[p] = "check"
            /\ ev[p].table # "_collections"
            /\ pc'[p] # "check" )
          => /\ pc'[p] = "done"
             /\ result'[p] = "ok"
             /\ trace'[p] = <<"ignored">>
             /\ UNCHANGED <<store, cacheHas, cache, dirExists, files, now,
                            written, lastNew, old, new, template, fileDest,
                            collections>> ]_vars

\* C8 witness: a handler returned for a model of another table
C8_Witness ==
    \E p \in Procs : Done(p) /\ ev[p].table = "_params" /\ result[p] = "ok"

\* C9: a not-found result of the lookup is absence of new, not an error:
\* the handler does not fail on it, labels the file deleted_<name of old>,
\* renders it from the cached old, and when it returns success the cache
\* holds no entry for the identifier.
C9_NotFoundIsDeletion ==
    [][ \A p \in Procs :
          ( /\ OnCollection(p) /\ Has(p, "find_nf") /\ old[p] # Nil
            /\ pc[p] # "done" /\ pc'[p] = "done" )
          => /\ result'[p] # "store_err"
             /\ result'[p] = "ok" =>
                   /\ Labelled(p, "deleted", old[p].name)
                   /\ template[p].old = old[p] /\ template[p].new = Nil
                   /\ cache'[Id(p)] = Nil ]_vars

\* a store query of p's invocation failed before the file was written
StoreFailed(p) ==
    \E k \in 1..Len(trace[p]) :
        /\ trace[p][k] \in {"all_err", "find_err"}
        /\ \A j \in 1..k : trace[p][j] # "write"

\* C10: a store error other than not-found, from the lazy population of the
\* cache or from the lookup of new, is the handler's error; the query is
\* not retried, no file is written and the cache is not refreshed.
C10_StoreErrorPropagated ==
    \A p \in Procs :
        (Done(p) /\ StoreFailed(p))
        => /\ result[p] = "store_err"
           /\ Last(p) \in {"all_err", "find_err"}
           /\ Cardinality({k \in 1..Len(trace[p]) :
                              trace[p][k] \in {"all", "all_err"}}) <= 1
           /\ Cardinality({k \in 1..Len(trace[p]) :
                              trace[p][k] \in {"find", "find_nf", "find_err"}}) <= 1
           /\ ~Has(p, "write") /\ WritesOf(p) = {}
           /\ fileDest[p] = NoFile
           /\ \A k \in 1..Len(trace[p]) :
                 trace[p][k] = "set" => (k < Len(trace[p]) /\ trace[p][k + 1] = "get")

\* C10 witness: the lookup of new failed after the cache was populated
\* lazily by the same invocation; and a lazy population failed
C10_Witness ==
    /\ \E p \in Procs : Done(p) /\ Last(p) = "find_err" /\ Has(p, "set")
    /\ \E p \in Procs : Done(p) /\ Last(p) = "all_err" /\ ~Has(p, "write")

\* a directory creation or a file write of p's invocation failed
FsFailed(p) == Has(p, "mkdir_err") \/ Has(p, "write_err")

\* q's event arrived after p's invocation had returned
After(p, q) == p # q /\ pc[q] # "idle" /\ p \in prior[q]

\* C11: a failed directory creation or file write is the handler's error and
\* the handler does not go on to refresh the cache; the next event of that
\* collection, handled after the failed one, reads as old the state the
\* collection had before the failed event.
C11_FsFailureKeepsPriorState ==
    \A p \in Procs :
        (Done(p) /\ FsFailed(p))
        => /\ result[p] = "fs_err"
           /\ Last(p) \in {"mkdir_err", "write_err"}
           /\ ~Has(p, "all_err")
           /\ \A k \in 1..Len(trace[p]) :
                 trace[p][k] = "set" => (k < Len(trace[p]) /\ trace[p][k + 1] = "get")
           /\ \A q \in Procs :
                 (After(p, q) /\ OnCollection(q) /\ Id(q) = Id(p) /\ Has(q, "get"))
                 => old[q] = pre[p]

\* a step before the final refresh failed: the lazy population, the lookup of
\* new, the rendering, the directory creation or the file write
StepFailed(p) ==
    \/ StoreFailed(p)
    \/ Has(p, "render_err")
    \/ FsFailed(p)

\* C12: a change record whose lazy population, lookup, rendering, directory
\* creation or file write failed ends failed: the failed step is the last one
\* the invocation executed, the handler's result is an error, and the
\* invocation has not written the cache, which keeps its pre-event value.
C12_FailedRecordLeavesCache ==
    \A p \in Procs :
        (Done(p) /\ StepFailed(p))
        => /\ Last(p) \in {"all_err", "find_err", "render_err", "mkdir_err", "write_err"}
           /\ result[p] \in {"store_err", "render_err", "fs_err"}
           /\ ~Has(p, "set")

\* the final refresh of p's invocation failed: its get-all query came after
\* the file write
RefreshFailed(p) ==
    \E k \in 1..Len(trace[p]) :
        /\ trace[p][k] = "all_err"
        /\ \E j \in 1..k : trace[p][j] = "write"

\* C13: every failing store query, rendering or filesystem operation of an
\* invocation, the failing get-all query of the final cache refresh included,
\* makes the handler return an error.
C13_NoErrorSwallowed ==
    \A p \in Procs :
        (Done(p) /\ (StepFailed(p) \/ RefreshFailed(p)))
        => result[p] \in {"store_err", "render_err", "fs_err"}

\* p's invocation takes a step whose get-all query fails or finds the store
\* not initialized
RefreshFails(p) ==
    /\ Len(trace'[p]) = Len(trace[p]) + 1
    /\ trace'[p][Len(trace'[p])] = "all_err"

\* C14: a refresh that finds the store not initialized or whose get-all
\* query fails returns there: the cache and its populated flag keep their
\* value, nothing is staged for Cache().Set, no Set follows, and the lazy
\* refresh's error is the result of the handler that asked for the cache.
C14_FailedRefreshKeepsCache ==
    [][\A p \in Procs :
          RefreshFails(p)
          => /\ cache' = cache
             /\ cacheHas' = cacheHas
             /\ collections'[p] = collections[p]
             /\ pc'[p] = "done"
             /\ (pc[p] = "lazyAll" => result'[p] = "store_err")]_vars

\* C14 witness: the final refresh of an invocation failed and the cache
\* still holds the earlier snapshot, which differs from the store
C14_Witness ==
    \E p \in Procs :
        /\ Done(p) /\ RefreshFailed(p)
        /\ cacheHas /\ cache # Mapped(AllCollections(store))

\* C15: the file name an invocation computes is made of the clock's second
\* at that step, the action label and the configured dialect as extension;
\* the label is deleted_ with old's name when new is absent, created_ with
\* new's name when old is absent, updated_ with the cached name when both
\* are present.
C15_FileName ==
    \A p \in Procs :
        fileDest[p] # NoFile
        => /\ fileDest[p].ext = TemplateLang
           /\ fileDest[p].ts \in 0..now
           /\ (new[p] = Nil /\ old[p] # Nil) => Labelled(p, "deleted", old[p].name)
           /\ (old[p] = Nil /\ new[p] # Nil) => Labelled(p, "created", new[p].name)
           /\ (old[p] # Nil /\ new[p] # Nil) => Labelled(p, "updated", old[p].name)
           /\ fileDest[p].action \in {"deleted", "created", "updated"}
           /\ fileDest[p].name \in Names

\* C15 witness: one invocation has named a created_ file, the other a
\* deleted_ file
C15_Witness ==
    \E p \in Procs, q \in Procs :
        /\ fileDest[p].action = "created" /\ old[p] = Nil
        /\ fileDest[q].action = "deleted" /\ new[q] = Nil

\* the order of the strings the model uses as verbs and as names
StringBefore ==
    {<<"created", "deleted">>, <<"created", "updated">>, <<"deleted", "updated">>,
     <<"posts", "users">>}

\* f sorts before g, or is g, as file names "<ts>_<verb>_<name>.<ext>" of one
\* dialect compared byte by byte; the timestamps have the same number of
\* digits
LexLeq(f, g) ==
    \/ f.ts < g.ts
    \/ /\ f.ts = g.ts
       /\ \/ <<f.action, g.action>> \in StringBefore
          \/ /\ f.action = g.action
             /\ (f.name = g.name \/ <<f.name, g.name>> \in StringBefore)

\* C16: when an event is handled after an earlier event's invocation has
\* returned and both wrote their file, the earlier file's name sorts before
\* the later file's name or is the same name.
C16_FileNamesSortInEventOrder ==
    \A p \in Procs, q \in Procs :
        (After(p, q) /\ WritesOf(p) # {} /\ WritesOf(q) # {})
        => LexLeq(fileDest[p], fileDest[q])

\* p's invocation resolved old absent from the cache and new absent from
\* the store
BothAbsent(p) ==
    /\ OnCollection(p) /\ Has(p, "get") /\ Has(p, "find_nf")
    /\ old[p] = Nil /\ new[p] = Nil

\* C17: an invocation that resolved both old and new absent returns without
\* an error and without a crash, and has written no file.
C17_BothAbsentIsNoOp ==
    \A p \in Procs :
        (Done(p) /\ BothAbsent(p))
        => /\ result[p] = "ok"
           /\ ~Has(p, "panic")
           /\ WritesOf(p) = {}

\* the mapping of every definition the store holds, keyed by identifier
Snapshot(s) == [i \in Ids |-> s[i]]

\* C18: the cache is written only by a Cache().Set that stores, whole, the
\* mapping one invocation built from one get-all query; that mapping is the
\* complete snapshot of the store at the time of the query; until the first
\* Set the cache is unpopulated and once populated it stays populated.
C18_CacheIsOneSnapshot ==
    [][/\ \A p \in Procs :
             collections'[p] # collections[p]
             => \/ collections'[p] = NoMap
                \/ /\ pc[p] \in {"lazyAll", "refreshAll"}
                   /\ collections'[p] = Snapshot(store)
       /\ (cache' # cache \/ cacheHas' # cacheHas)
          => \E p \in Procs :
                /\ pc[p] \in {"lazySet", "refreshSet"}
                /\ cache' = collections[p]
                /\ cacheHas'
       /\ ~cacheHas' => cache' = NoMap]_vars

\* C18 witness: both invocations have ended with their Set and the cache
\* holds the complete snapshot of an earlier query, not the store's state
C18_Witness ==
    /\ \A p \in Procs : Done(p) /\ Last(p) = "set" /\ Has(p, "write")
    /\ cacheHas
    /\ cache # Snapshot(store)
    /\ \E i \in Ids : cache[i] # Nil

\* q's event is the next one of the collection of p's event, it arrived after
\* p's invocation had gone through every step without a failure, and q's
\* invocation has read old
Succeeds(p, q) ==
    /\ After(p, q)
    /\ OnCollection(p) /\ OnCollection(q) /\ Id(p) = Id(q)
    /\ Done(p) /\ Last(p) = "set" /\ ~Faulted(p)
    /\ Has(q, "get") /\ ~Faulted(q)

\* C19: when the events of a collection are handled one at a time and every
\* step succeeds, the old an invocation resolves is the new the previous
\* invocation for that collection resolved.
C19_OldIsPreviousNew ==
    \A p \in Procs, q \in Procs :
        Succeeds(p, q) => old[q] = new[p]

\* C19 witness: the second of two events of one collection has read as old
\* the definition the first one resolved as new and diffed against another
\* old
C19_Witness ==
    \E p \in Procs, q \in Procs :
        /\ Succeeds(p, q)
        /\ new[p] # Nil /\ old[p] # new[p]
        /\ old[q] = new[p]
        /\ Done(q) /\ Last(q) = "set"

\* the steps of the handler in the order the spec gives them, after the
\* table check
StepOrder == <<"check", "read", "lookup", "render", "mkdir", "write", "refresh">>

\* the step a trace tag belongs to: a get-all query and a Cache().Set are a
\* refresh of the cache
StepOf(tag) ==
    CASE tag \in {"collection", "ignored"} -> "check"
      [] tag \in {"has", "get"} -> "read"
      [] tag \in {"find", "find_nf", "find_err"} -> "lookup"
      [] tag \in {"render", "render_err", "panic"} -> "render"
      [] tag \in {"mkdir", "mkdir_err"} -> "mkdir"
      [] tag \in {"write", "write_err"} -> "write"
      [] tag \in {"all", "all_err", "set"} -> "refresh"

\* the step the k-th tag of p's trace belongs to: the lazy refresh is
\* part of the cache read that asked for it (automigrate.go:26 -> 97-102)
StepAt(p, k) ==
    IF /\ trace[p][k] \in {"all", "all_err", "set"}
       /\ \A j \in 1..k : trace[p][j] # "get"
    THEN "read"
    ELSE StepOf(trace[p][k])

\* the place of a step in StepOrder
Pos(step) == CHOOSE n \in 1..Len(StepOrder) : StepOrder[n] = step

\* C20: the steps of one invocation are taken in the order cache read,
\* lookup, render, directory creation, file write, refresh; the directory is
\* created before the file is written, and the invocation writes the cache
\* only after its own file write has succeeded.
C20_StepOrder ==
    \A p \in Procs :
        /\ \A k \in 1..Len(trace[p]), j \in 1..Len(trace[p]) :
              k < j => Pos(StepAt(p, k)) <= Pos(StepAt(p, j))
        /\ \A j \in 1..Len(trace[p]) :
              trace[p][j] \in {"write", "write_err"}
              => \E k \in 1..j : trace[p][k] = "mkdir"
        /\ \A j \in 1..Len(trace[p]) :
              trace[p][j] = "set"
              => \E k \in 1..j : trace[p][k] = "write"

\* p's invocation takes a step
Moves(p) == trace'[p] # trace[p] /\ pc[p] # "idle"

\* C21: with no definition in the store the lazy refresh's query yields the
\* empty mapping without an error, Cache().Set stores it and the cache is
\* populated from then on; the read that follows returns the empty mapping,
\* and a get that finds the empty mapping cached goes to the read without a
\* get-all query.
C21_EmptyStoreTolerated ==
    [][\A p \in Procs :
          Moves(p)
          => /\ (pc[p] = "lazyAll" /\ store = NoMap /\ pc'[p] = "lazySet")
                => collections'[p] = NoMap /\ result'[p] = result[p]
             /\ (pc[p] = "lazySet" /\ collections[p] = NoMap)
                => /\ cacheHas' /\ cache' = NoMap
                   /\ pc'[p] = "get" /\ result'[p] = result[p]
             /\ (pc[p] = "has" /\ cacheHas /\ cache = NoMap)
                => pc'[p] = "get" /\ collections'[p] = collections[p]
             /\ (pc[p] = "get" /\ cacheHas /\ cache = NoMap)
                => old'[p] = Nil /\ pc'[p] = "find"]_vars

\* C21 witness: an invocation populated the cache lazily from an empty
\* store, and the next event's invocation went from Cache().Has to the read
\* of the still empty mapping without querying the store
C21_Witness ==
    \E p \in Procs, q \in Procs :
        /\ After(p, q)
        /\ Has(p, "set") /\ ~Has(p, "write")
        /\ cacheHas /\ cache = NoMap
        /\ Has(q, "get") /\ ~Has(q, "all") /\ ~Has(q, "all_err")

\* every definition of mapping m is filed under its own identifier, and no
\* collection has two entries
KeyedById(m) ==
    /\ \A i \in Ids : m[i] # Nil => m[i].id = i
    /\ \A i \in Ids, j \in Ids :
          (i # j /\ m[i] # Nil /\ m[j] # Nil) => m[i].id # m[j].id

\* C22: in every state each definition of the cached mapping, and of a
\* mapping an invocation has built for Cache().Set, is filed under its own
\* identifier, with one entry per collection at most.
C22_CacheKeyedById ==
    /\ KeyedById(cache)
    /\ \A p \in Procs : KeyedById(collections[p])

\* C22 witness: a final refresh has stored a mapping of two collections
C22_Witness ==
    /\ cacheHas
    /\ \A i \in Ids : cache[i] # Nil
    /\ \E p \in Procs : Done(p) /\ Last(p) = "set" /\ IsCreate(p)

\* p's invocation resolved both sides of the diff, under different names
Renames(p) ==
    /\ OnCollection(p) /\ Has(p, "find")
    /\ old[p] # Nil /\ new[p] # Nil /\ old[p].name # new[p].name

\* C23: the file of an update that renames a collection is named
\* <timestamp>_updated_<name of old>.<extension>: the name the collection
\* had before the rename, not the name it has now.
C23_RenameUsesOldName ==
    \A p \in Procs :
        (Renames(p) /\ fileDest[p] # NoFile)
        => /\ Labelled(p, "updated", old[p].name)
           /\ fileDest[p].name # new[p].name
           /\ \A k \in WritesOf(p) :
                 /\ written[k].dest.action = "updated"
                 /\ written[k].dest.name = old[p].name

\* C23 witness: the file of a rename has been written
C23_Witness ==
    \E p \in Procs :
        /\ Renames(p) /\ IsUpdate(p) /\ pre[p].name # post[p].name
        /\ WritesOf(p) # {}

\* C24: while the cache is populated, an invocation's Cache().Has leads to
\* the read with no get-all query and no error; the cache stays populated,
\* and its value changes only in the Cache().Set of the final refresh of an
\* invocation that has written its file.
C24_PopulatedCacheFrame ==
    [][cacheHas
       => /\ cacheHas'
          /\ \A p \in Procs :
                (pc[p] = "has" /\ Moves(p))
                => /\ pc'[p] = "get"
                   /\ result'[p] = result[p]
                   /\ collections'[p] = collections[p]
          /\ cache' # cache
             => \E p \in Procs :
                   /\ pc[p] = "refreshSet" /\ Has(p, "write")
                   /\ pc'[p] = "done"]_vars

\* C25: whatever value the dialect option has, a rendered template comes
\* from the JS renderer when the value is the JS dialect and from the Go
\* renderer for every other value, recognised or not; the extension of the
\* file name, and of every file written, is the option's value as it is.
C25_RendererByDialect ==
    /\ options.TemplateLang \in TemplateLangs
    /\ \A p \in Procs :
          /\ template[p] # NoTemplate
             => /\ options.TemplateLang = TemplateLangJS => template[p].lang = "js"
                /\ options.TemplateLang # TemplateLangJS => template[p].lang = "go"
          /\ fileDest[p] # NoFile => fileDest[p].ext = options.TemplateLang
    /\ \A k \in 1..Len(written) :
          /\ written[k].dest.ext = options.TemplateLang
          /\ written[k].data.lang = IF options.TemplateLang = TemplateLangJS
                                    THEN "js" ELSE "go"

\* C25 witness: with a dialect value that is neither JS nor Go the handler
\* rendered with the Go renderer, wrote the file under that extension and
\* returned nil
C25_Witness ==
    \E p \in Procs :
        /\ options.TemplateLang \notin {TemplateLangJS, "go"}
        /\ Done(p) /\ result[p] = "ok" /\ WritesOf(p) # {}
        /\ template[p].lang = "go"
        /\ fileDest[p].ext = options.TemplateLang

====
